---- MODULE Spec2Model ----
(***************************************************************************)
(* Model of main.py: the Customer and BankAccount classes, their two       *)
(* class-level counters, and the operations top_up, withdraw and the       *)
(* balance setter.  Python integers are unbounded; the model explores the  *)
(* arguments of Values, keeps balances up to MaxBalance and constructs at  *)
(* most MaxObjects objects.                                                *)
(***************************************************************************)
EXTENDS Integers, Sequences, FiniteSets, TLC

\* Bounds of the exploration.
MaxObjects == 3
MaxValue == 2
MaxBalance == 2

\* Arguments of top_up, withdraw and the balance setter: one negative value,
\* zero, and the positive values up to MaxValue.
Values == (0 - 1)..MaxValue
Names == {"Davide Blane"}
Emails == {"dave@mail.com", "mark@mail.ua"}

VARIABLES
    customer_counter,   \* Customer.__customer_counter
    account_counter,    \* BankAccount.__account_counter
    customers,          \* the Customer objects, in creation order
    accounts,           \* the BankAccount objects, in creation order
    assigned,           \* accounts on which a balance assignment has taken effect
    last                \* the last call: operation, target, argument, outcome

vars == <<customer_counter, account_counter, customers, accounts, assigned, last>>

NoCall == [op |-> "none", target |-> 0, value |-> 0, raised |-> "none", ret |-> ""]

Call(op, target, value, raised, ret) ==
    [op |-> op, target |-> target, value |-> value, raised |-> raised, ret |-> ret]

----------------------------------------------------------------------------
\* Customer

\* Mutant: the id is read before the counter is incremented.
Customer_init_stale(counter, name, email) ==
    [counter |-> counter + 1,
     self |-> [name |-> name, email |-> email, customer_id |-> counter]]

\* Customer.__init__: increments the class counter, then stores it as the id.
Customer_init(counter, name, email) ==
    LET c == counter + 1 IN
    [counter |-> c,
     self |-> [name |-> name, email |-> email, customer_id |-> c]]

\* Customer.email setter: no validation.
email_setter(self, new_email) == [self EXCEPT !.email = new_email]

----------------------------------------------------------------------------
\* BankAccount

\* BankAccount.__init__
BankAccount_init(counter, owner) ==
    LET c == counter + 1 IN
    [counter |-> c,
     self |-> [owner |-> owner, balance |-> 0, account_number |-> c,
               account_initiation |-> TRUE]]

\* Mutant: zero is accepted as a top up.
top_up_accepts_zero(self, value) ==
    IF value < 0
    THEN [self |-> self, raised |-> "ValueError",
          ret |-> "Top ups should be positive amount."]
    ELSE LET b == self.balance + value IN
         [self |-> [self EXCEPT !.balance = b, !.account_initiation = FALSE],
          raised |-> "none",
          ret |-> "You have topped up " \o ToString(value)
                  \o " USD. Current balance: " \o ToString(b) \o " USD"]

\* Mutant: the message is formatted before the balance is increased.
top_up_stale_message(self, value) ==
    IF value <= 0
    THEN [self |-> self, raised |-> "ValueError",
          ret |-> "Top ups should be positive amount."]
    ELSE LET b == self.balance + value IN
         [self |-> [self EXCEPT !.balance = b, !.account_initiation = FALSE],
          raised |-> "none",
          ret |-> "You have topped up " \o ToString(value)
                  \o " USD. Current balance: " \o ToString(self.balance) \o " USD"]

\* BankAccount.top_up
top_up(self, value) ==
    IF value <= 0
    THEN [self |-> self, raised |-> "ValueError",
          ret |-> "Top ups should be positive amount."]
    ELSE LET b == self.balance + value IN
         [self |-> [self EXCEPT !.balance = b, !.account_initiation = FALSE],
          raised |-> "none",
          ret |-> "You have topped up " \o ToString(value)
                  \o " USD. Current balance: " \o ToString(b) \o " USD"]

\* Mutant: the funds check is missing.
withdraw_unchecked(self, value) ==
    LET b == self.balance - value IN
    [self |-> [self EXCEPT !.balance = b],
     raised |-> "none",
     ret |-> "You have withdrawn " \o ToString(value)
             \o " USD. Remaining balance: " \o ToString(b) \o " USD"]

\* Mutant: the balance is decreased before the funds check.
withdraw_late_check(self, value) ==
    LET b == self.balance - value IN
    IF b < 0
    THEN [self |-> [self EXCEPT !.balance = 0], raised |-> "ValueError",
          ret |-> "Insufficient balance."]
    ELSE [self |-> [self EXCEPT !.balance = b],
          raised |-> "none",
          ret |-> "You have withdrawn " \o ToString(value)
                  \o " USD. Remaining balance: " \o ToString(b) \o " USD"]

\* Mutant: non-positive amounts are rejected, as top_up does.
withdraw_positive_only(self, value) ==
    IF value <= 0 \/ self.balance < value
    THEN [self |-> self, raised |-> "ValueError",
          ret |-> "Insufficient balance."]
    ELSE LET b == self.balance - value IN
         [self |-> [self EXCEPT !.balance = b],
          raised |-> "none",
          ret |-> "You have withdrawn " \o ToString(value)
                  \o " USD. Remaining balance: " \o ToString(b) \o " USD"]

\* BankAccount.withdraw: only checks the funds; the flag is left alone.
withdraw(self, value) ==
    IF self.balance < value
    THEN [self |-> self, raised |-> "ValueError",
          ret |-> "Insufficient balance."]
    ELSE LET b == self.balance - value IN
         [self |-> [self EXCEPT !.balance = b],
          raised |-> "none",
          ret |-> "You have withdrawn " \o ToString(value)
                  \o " USD. Remaining balance: " \o ToString(b) \o " USD"]

\* Mutant: the flag is not cleared by the assignment.
balance_setter_keeps_flag(self, value) ==
    IF value <= 0
    THEN [self |-> self, raised |-> "ValueError",
          ret |-> "Balance should be above 0."]
    ELSE IF self.account_initiation
         THEN [self |-> [self EXCEPT !.balance = value],
               raised |-> "none", ret |-> ""]
         ELSE [self |-> self, raised |-> "none", ret |-> ""]

\* Mutant: the flag is toggled instead of cleared.
balance_setter_toggles_flag(self, value) ==
    IF value <= 0
    THEN [self |-> self, raised |-> "ValueError",
          ret |-> "Balance should be above 0."]
    ELSE IF self.account_initiation
         THEN [self |-> [self EXCEPT !.balance = value,
                                     !.account_initiation = FALSE],
               raised |-> "none", ret |-> ""]
         ELSE [self |-> [self EXCEPT !.account_initiation = TRUE],
               raised |-> "none", ret |-> ""]

\* Mutant: the value is validated only while the account is writable.
balance_setter_checks_late(self, value) ==
    IF self.account_initiation
    THEN IF value <= 0
         THEN [self |-> self, raised |-> "ValueError",
               ret |-> "Balance should be above 0."]
         ELSE [self |-> [self EXCEPT !.balance = value,
                                     !.account_initiation = FALSE],
               raised |-> "none", ret |-> ""]
    ELSE [self |-> self, raised |-> "none", ret |-> ""]

\* BankAccount.balance setter: validates, then writes once.
balance_setter(self, value) ==
    IF value <= 0
    THEN [self |-> self, raised |-> "ValueError",
          ret |-> "Balance should be above 0."]
    ELSE IF self.account_initiation
         THEN [self |-> [self EXCEPT !.balance = value,
                                     !.account_initiation = FALSE],
               raised |-> "none", ret |-> ""]
         ELSE [self |-> self, raised |-> "none", ret |-> ""]

----------------------------------------------------------------------------
\* The program: any sequence of constructions and method calls.

Init ==
    /\ customer_counter = 0
    /\ account_counter = 0
    /\ customers = << >>
    /\ accounts = << >>
    /\ assigned = {}
    /\ last = NoCall

\* Customer(name, email)
CreateCustomer ==
    /\ Len(customers) + Len(accounts) < MaxObjects
    /\ \E name \in Names, email \in Emails :
         LET r == Customer_init(customer_counter, name, email) IN
         /\ customer_counter' = r.counter
         /\ customers' = Append(customers, r.self)
         /\ last' = Call("Customer", Len(customers) + 1, 0, "none", "")
    /\ UNCHANGED <<account_counter, accounts, assigned>>

\* customer.email = new_email
SetEmail ==
    /\ \E c \in 1..Len(customers), new_email \in Emails :
         /\ customers' = [customers EXCEPT ![c] = email_setter(customers[c], new_email)]
         /\ last' = Call("email", c, 0, "none", "")
    /\ UNCHANGED <<customer_counter, account_counter, accounts, assigned>>

\* BankAccount(owner)
CreateAccount ==
    /\ Len(customers) + Len(accounts) < MaxObjects
    /\ \E owner \in 1..Len(customers) :
         LET r == BankAccount_init(account_counter, owner) IN
         /\ account_counter' = r.counter
         /\ accounts' = Append(accounts, r.self)
         /\ last' = Call("BankAccount", Len(accounts) + 1, 0, "none", "")
    /\ UNCHANGED <<customer_counter, customers, assigned>>

\* account.top_up(value)
TopUp ==
    /\ \E i \in 1..Len(accounts), value \in Values :
         LET r == top_up(accounts[i], value) IN
         /\ r.self.balance <= MaxBalance
         /\ accounts' = [accounts EXCEPT ![i] = r.self]
         /\ last' = Call("top_up", i, value, r.raised, r.ret)
    /\ UNCHANGED <<customer_counter, account_counter, customers, assigned>>

\* account.withdraw(value)
Withdraw ==
    /\ \E i \in 1..Len(accounts), value \in Values :
         LET r == withdraw(accounts[i], value) IN
         /\ r.self.balance <= MaxBalance
         /\ accounts' = [accounts EXCEPT ![i] = r.self]
         /\ last' = Call("withdraw", i, value, r.raised, r.ret)
    /\ UNCHANGED <<customer_counter, account_counter, customers, assigned>>

\* account.balance = value
SetBalance ==
    /\ \E i \in 1..Len(accounts), value \in Values :
         LET r == balance_setter(accounts[i], value) IN
         /\ r.self.balance <= MaxBalance
         /\ accounts' = [accounts EXCEPT ![i] = r.self]
         /\ assigned' = IF r.raised = "none" /\ r.self # accounts[i]
                        THEN assigned \cup {i} ELSE assigned
         /\ last' = Call("balance", i, value, r.raised, r.ret)
    /\ UNCHANGED <<customer_counter, account_counter, customers>>

Next ==
    \/ CreateCustomer
    \/ SetEmail
    \/ CreateAccount
    \/ TopUp
    \/ Withdraw
    \/ SetBalance

Spec == Init /\ [][Next]_vars

----------------------------------------------------------------------------
\* Shorthands used by the properties below.

IsCall(c, op) == c.op = op
Accounts == 1..Len(accounts)
Writable(i) == accounts[i].account_initiation
Locked(i) == ~accounts[i].account_initiation
OthersUnchanged(i) ==
    /\ Len(accounts') = Len(accounts)
    /\ \A j \in Accounts : j # i => accounts'[j] = accounts[j]

\* A positive assignment on a writable account sets the balance and locks it.
FirstWriteTakesEffect ==
    (IsCall(last', "balance") /\ last'.value > 0 /\ Writable(last'.target)) =>
        /\ last'.raised = "none"
        /\ accounts'[last'.target].balance = last'.value
        /\ ~accounts'[last'.target].account_initiation
        /\ OthersUnchanged(last'.target)

\* A positive assignment on a locked account changes nothing and raises nothing.
LockedWriteIgnored ==
    (IsCall(last', "balance") /\ last'.value > 0 /\ Locked(last'.target)) =>
        /\ last'.raised = "none"
        /\ accounts' = accounts

----------------------------------------------------------------------------
\* C1: in every reachable state, whatever the sequence of constructions,
\* top ups, withdrawals and balance assignments (failing calls included),
\* the balance of every account is at least 0.
C1_BalanceNeverNegative == \A i \in Accounts : accounts[i].balance >= 0

\* C1 witness: a withdrawal has just failed on an account that was drained
\* to exactly 0 by earlier withdrawals.
C1_Witness ==
    /\ IsCall(last, "withdraw") /\ last.raised = "ValueError" /\ last.value > 0
    /\ Locked(last.target) /\ accounts[last.target].balance = 0

C3_WithdrawLocks ==
    (IsCall(last, "withdraw") /\ last.raised = "none") => Locked(last.target)

\* C4: top_up(a) with a <= 0 raises the invalid-amount ValueError and leaves
\* every account (balance and flag) as it was, so that a first positive
\* assignment on a still-writable account takes effect afterwards.
C4_TopUpRejectsNonPositive ==
    [][/\ (IsCall(last', "top_up") /\ last'.value <= 0) =>
             /\ last'.raised = "ValueError"
             /\ last'.ret = "Top ups should be positive amount."
             /\ accounts' = accounts
       /\ FirstWriteTakesEffect]_vars

\* C4 witness: a non-positive top up has just failed on a writable account.
C4_Witness ==
    /\ IsCall(last, "top_up") /\ last.value <= 0 /\ last.raised = "ValueError"
    /\ Writable(last.target)

\* C5: withdraw(a) with a above the balance raises the insufficient-funds
\* ValueError and leaves every account unchanged; a withdrawal that does not
\* exceed the balance then succeeds and leaves balance - a.
C5_WithdrawInsufficient ==
    [][IsCall(last', "withdraw") =>
          IF last'.value > accounts[last'.target].balance
          THEN /\ last'.raised = "ValueError"
               /\ last'.ret = "Insufficient balance."
               /\ accounts' = accounts
          ELSE /\ last'.raised = "none"
               /\ accounts'[last'.target].balance =
                      accounts[last'.target].balance - last'.value]_vars

\* C5 witness: a withdrawal above a positive balance has just failed on an
\* account that was topped up.
C5_Witness ==
    /\ IsCall(last, "withdraw") /\ last.raised = "ValueError"
    /\ Locked(last.target) /\ last.target \notin assigned
    /\ accounts[last.target].balance > 0
    /\ last.value > accounts[last.target].balance

\* C6: the k-th Customer has customer_id k and the k-th BankAccount has
\* account_number k, under every interleaving; creating a customer leaves the
\* account counter alone and conversely; no other call moves a counter; an
\* assigned id or number never changes.
C6_Numbering ==
    /\ [](/\ customer_counter = Len(customers)
          /\ account_counter = Len(accounts)
          /\ \A k \in 1..Len(customers) : customers[k].customer_id = k
          /\ \A k \in Accounts : accounts[k].account_number = k)
    /\ [][/\ \A k \in 1..Len(customers) :
                /\ k <= Len(customers')
                /\ customers'[k].customer_id = customers[k].customer_id
          /\ \A k \in Accounts :
                /\ k <= Len(accounts')
                /\ accounts'[k].account_number = accounts[k].account_number
          /\ IF IsCall(last', "Customer")
             THEN /\ customer_counter' = customer_counter + 1
                  /\ account_counter' = account_counter
             ELSE IF IsCall(last', "BankAccount")
             THEN /\ account_counter' = account_counter + 1
                  /\ customer_counter' = customer_counter
             ELSE /\ customer_counter' = customer_counter
                  /\ account_counter' = account_counter]_vars

\* C6 witness: customer, account, customer were created in that order.
C6_Witness ==
    /\ IsCall(last, "Customer") /\ last.target = 2
    /\ Len(customers) = 2 /\ Len(accounts) = 1
    /\ customers[2].customer_id = 2 /\ accounts[1].account_number = 1

\* C7: top_up(a) with a > 0 succeeds, adds exactly a to the balance, clears
\* the initiation flag (a later positive assignment is then ignored), and
\* returns the message naming a and the new balance.
C7_TopUp ==
    [][/\ (IsCall(last', "top_up") /\ last'.value > 0) =>
             /\ last'.raised = "none"
             /\ accounts'[last'.target].balance =
                    accounts[last'.target].balance + last'.value
             /\ ~accounts'[last'.target].account_initiation
             /\ OthersUnchanged(last'.target)
             /\ last'.ret = "You have topped up " \o ToString(last'.value)
                    \o " USD. Current balance: "
                    \o ToString(accounts'[last'.target].balance) \o " USD"
       /\ LockedWriteIgnored]_vars

\* C7 witness: a positive top up has just succeeded on an account that
\* already held money.
C7_Witness ==
    /\ IsCall(last, "top_up") /\ last.raised = "none" /\ last.value > 0
    /\ accounts[last.target].balance > last.value

\* C8: an account is created writable, and once locked it stays locked
\* whatever is called on it, on another account or on a customer.
C8_LockedIsTerminal ==
    [][/\ \A i \in Accounts : Locked(i) => ~accounts'[i].account_initiation
       /\ IsCall(last', "BankAccount") =>
             /\ Len(accounts') = Len(accounts) + 1
             /\ accounts'[Len(accounts')].account_initiation
             /\ accounts'[Len(accounts')].balance = 0]_vars

\* C8 witness: an account is locked and the last call succeeded on another
\* account.
C8_Witness ==
    \E i \in Accounts :
        /\ Locked(i)
        /\ last.op \in {"top_up", "withdraw", "balance"}
        /\ last.raised = "none"
        /\ last.target # i

\* C9: withdraw(a) with a <= 0 never fails, leaves balance - a (unchanged for
\* 0, larger for a negative a) and does not touch the initiation flag, so a
\* positive assignment on the still-writable account overwrites that balance.
C9_WithdrawNonPositive ==
    [][/\ (IsCall(last', "withdraw") /\ last'.value <= 0) =>
             /\ last'.raised = "none"
             /\ accounts'[last'.target].balance =
                    accounts[last'.target].balance - last'.value
             /\ accounts'[last'.target].balance >= accounts[last'.target].balance
             /\ accounts'[last'.target].account_initiation =
                    accounts[last'.target].account_initiation
             /\ OthersUnchanged(last'.target)
       /\ FirstWriteTakesEffect]_vars

\* C9 witness: a negative withdrawal has just raised the balance of an
\* account that is still writable.
C9_Witness ==
    /\ IsCall(last, "withdraw") /\ last.raised = "none" /\ last.value < 0
    /\ Writable(last.target) /\ accounts[last.target].balance > 0

\* C10: a balance assignment with v <= 0 raises the invalid-amount ValueError
\* on a writable and on a locked account alike and changes neither balance
\* nor flag, so the next positive assignment on a writable account is applied.
C10_AssignRejectsNonPositive ==
    [][/\ (IsCall(last', "balance") /\ last'.value <= 0) =>
             /\ last'.raised = "ValueError"
             /\ last'.ret = "Balance should be above 0."
             /\ accounts' = accounts
             /\ assigned' = assigned
       /\ FirstWriteTakesEffect]_vars

\* C10 witness: a non-positive assignment has just failed on a locked account.
C10_Witness ==
    /\ IsCall(last, "balance") /\ last.value <= 0 /\ last.raised = "ValueError"
    /\ Locked(last.target)

====
